---- MODULE Spec2Model ----
(***************************************************************************)
(* Model of the dual-agent (generator / critic) refinement loop of         *)
(* dual_agent_granite.py: OllamaClient.generate, Agent.process and         *)
(* DualAgentCoordinator.run, one coordinator reused for several runs.      *)
(* Texts are sequences of one-character strings, so that lower(), strip()  *)
(* and the substring test of the convergence check are computed.           *)
(***************************************************************************)
EXTENDS Integers, Sequences, FiniteSets, TLC

\* ------------------------------------------------------------------ bounds
\* largest max_iterations a caller passes to run()
MaxIterations == 3
\* number of run() calls made on the one coordinator
MaxRuns == 2

\* ------------------------------------------------------------------- texts
UpperLetters == <<"A", "B", "C", "D", "E", "F", "G", "H", "I", "J", "K", "L", "M", "N", "O", "P", "Q", "R", "S", "T", "U", "V", "W", "X", "Y", "Z">>

LowerLetters == <<"a", "b", "c", "d", "e", "f", "g", "h", "i", "j", "k", "l", "m", "n", "o", "p", "q", "r", "s", "t", "u", "v", "w", "x", "y", "z">>

Digits == <<"0", "1", "2", "3", "4", "5", "6", "7", "8", "9">>

Whitespace == {" ", "\n", "\t", "\r"}

Range(f) == {f[i] : i \in DOMAIN f}

\* str.lower() on one character
LowerChar(c) ==
    IF \E i \in 1..Len(UpperLetters) : UpperLetters[i] = c
    THEN LowerLetters[CHOOSE i \in 1..Len(UpperLetters) : UpperLetters[i] = c]
    ELSE c

\* str.lower()
lower(s) == [i \in 1..Len(s) |-> LowerChar(s[i])]

\* the Python test `sub in s`
Contains(sub, s) ==
    \E i \in 0..(Len(s) - Len(sub)) : SubSeq(s, i + 1, i + Len(sub)) = sub

\* str.strip(): drops leading and trailing whitespace
strip(s) ==
    LET keep == {i \in 1..Len(s) : s[i] \notin Whitespace}
    IN  IF keep = {} THEN <<>>
        ELSE SubSeq(s, CHOOSE i \in keep : \A j \in keep : i <= j,
                       CHOOSE i \in keep : \A j \in keep : j <= i)

\* decimal rendering of a non-negative integer inside an f-string
RECURSIVE FormatInt(_)
FormatInt(n) ==
    IF n < 10 THEN <<Digits[n + 1]>>
    ELSE FormatInt(n \div 10) \o <<Digits[(n % 10) + 1]>>

\* the marker of the convergence check in run()
ConvergenceMarker == <<"n", "o", " ", "s", "i", "g", "n", "i", "f", "i", "c", "a", "n", "t", " ", "i", "m", "p", "r", "o", "v", "e", "m", "e", "n", "t", "s", " ", "n", "e", "e", "d", "e", "d">>

\* CONVERGENCE_KEYWORDS of config_template.py
CONVERGENCE_KEYWORDS == <<
    ConvergenceMarker,
    <<"r", "e", "s", "p", "o", "n", "s", "e", " ", "i", "s", " ", "c", "o", "m", "p", "r", "e", "h", "e", "n", "s", "i", "v", "e", " ", "a", "n", "d", " ", "a", "c", "c", "u", "r", "a", "t", "e">>,
    <<"q", "u", "a", "l", "i", "t", "y", " ", "i", "s", " ", "s", "a", "t", "i", "s", "f", "a", "c", "t", "o", "r", "y">>,
    <<"m", "e", "e", "t", "s", " ", "a", "l", "l", " ", "r", "e", "q", "u", "i", "r", "e", "m", "e", "n", "t", "s">>,
    <<"e", "x", "c", "e", "l", "l", "e", "n", "t", " ", "r", "e", "s", "p", "o", "n", "s", "e">> >>

ErrorHttpPrefix == <<"E", "r", "r", "o", "r", ":", " ", "H", "T", "T", "P", " ">>

ErrorPrefix == <<"E", "r", "r", "o", "r", ":", " ">>

\* ------------------------------------------------- inputs of the model
\* user queries passed to run(): the caller works through a batch of queries
\* on one coordinator, one run() per query
Queries == <<
    <<"W", "h", "a", "t", " ", "i", "s", " ", "D", "o", "c", "k", "e", "r", "?">>,
    <<"E", "x", "p", "l", "a", "i", "n", " ", "K", "u", "b", "e", "r", "n", "e", "t", "e", "s", ".">>,
    <<"W", "h", "a", "t", " ", "a", "r", "e", " ", "m", "i", "c", "r", "o", "s", "e", "r", "v", "i", "c", "e", "s", "?">> >>

\* the query of the r-th run() call
QueryOfRun(r) == Queries[((r - 1) % Len(Queries)) + 1]

\* what requests.post can do: answer with a status and a JSON body that
\* has or lacks the 'response' field, or raise
HttpReply(status, has_response, body) ==
    [kind |-> "response", status |-> status, has_response |-> has_response,
     body |-> body, detail |-> <<>>]

Raises(detail) ==
    [kind |-> "exception", status |-> 0, has_response |-> FALSE,
     body |-> <<>>, detail |-> detail]

\* an answer that itself quotes the marker phrase, with surrounding blanks
TextAnswer == <<" ", "A", "1", ":", " ">> \o ConvergenceMarker \o <<"\n">>

TextAdvice == <<"a", "d", "d", " ", "d", "e", "t", "a", "i", "l">>

TextMarkerMixedCase == <<"O", "k", ":", " ", "N", "o", " ", "S", "i", "g", "n", "i", "f", "i", "c", "a", "n", "t", " ", "I", "M", "P", "R", "O", "V", "E", "M", "E", "N", "T", "S", " ", "N", "e", "e", "d", "e", "d", ".", "\n">>

TextOtherKeyword == <<" ", "q", "u", "a", "l", "i", "t", "y", " ", "i", "s", " ", "s", "a", "t", "i", "s", "f", "a", "c", "t", "o", "r", "y", ".">>

TextTimedOut == <<"t", "i", "m", "e", "d", " ", "o", "u", "t">>

\* backend behaviours met by a generator request
GeneratorReplies ==
    { HttpReply(200, TRUE, TextAnswer),
      HttpReply(500, FALSE, <<>>) }

\* backend behaviours met by a critic request
CriticReplies ==
    { HttpReply(200, TRUE, TextAdvice),
      HttpReply(200, TRUE, ConvergenceMarker),
      HttpReply(200, TRUE, TextMarkerMixedCase),
      HttpReply(200, TRUE, TextOtherKeyword),
      HttpReply(200, FALSE, <<>>),
      Raises(TextTimedOut) }

\* --------------------------------------------------- OllamaClient.generate
generate_IgnoresStatus(reply) ==
    IF reply.kind = "exception"
    THEN ErrorPrefix \o reply.detail
    ELSE strip(IF reply.has_response THEN reply.body ELSE <<>>)

generate(reply) ==
    IF reply.kind = "exception"
    THEN ErrorPrefix \o reply.detail
    ELSE IF reply.status = 200
         THEN strip(IF reply.has_response THEN reply.body ELSE <<>>)
         ELSE ErrorHttpPrefix \o FormatInt(reply.status)

\* ----------------------------------------------------------- Agent.process
\* a context is a dict; None is the dict-less value
NoContext == [none |-> TRUE]

\* context.get(key): the value or None
HasKey(context, key) == key \in DOMAIN context

\* `context and context.get('feedback')` as a truth value
FeedbackTruthy(context) ==
    /\ context # NoContext
    /\ HasKey(context, "feedback")
    /\ context.feedback # <<>>

\* the prompt Agent.process builds, by role
BuildPrompt(role, input_text, context) ==
    IF role = "generator"
    THEN IF FeedbackTruthy(context)
         THEN [kind |-> "revision", query |-> context.query,
               previous_response |-> context.previous_response,
               feedback |-> context.feedback]
         ELSE [kind |-> "first", query |-> input_text]
    ELSE [kind |-> "evaluate", query |-> context.query,
          response |-> input_text]

\* ------------------------------------------------------------------ state
VARIABLES
    generator_call_count,  \* self.generator.call_count
    critic_call_count,     \* self.critic.call_count
    pc,                    \* position of the caller / of run()
    user_query,            \* parameter of run()
    max_iterations,        \* parameter of run()
    state,                 \* the ConversationState of the run in progress
    range_next,            \* next value of the iterator range(max_iterations)
    iteration,             \* loop variable of run()
    result,                \* <<>> or <<the dict run() returned>>
    run_no,                \* number of run() calls made on this coordinator
    calls,                 \* log of the Agent.process calls of the current run
    history_obj,           \* identity of the list object state.history is
    kept,                  \* <<>> or <<the history of the previous result,
                           \*           still held by the caller>>
    backend_requests,      \* requests.post calls of the current run that ended
    earlier_calls,         \* Agent.process calls of the runs before this one
    in_flight              \* requests sent to the backend and not yet answered

vars == <<generator_call_count, critic_call_count, pc, user_query,
          max_iterations, state, range_next, iteration, result, run_no, calls,
          history_obj, kept, backend_requests, earlier_calls, in_flight>>

\* values of max_iterations the callers pass
IterationArgs == (-1)..MaxIterations

\* Optional[str] of a history record
None == [present |-> FALSE, text |-> <<>>]

Some(text) == [present |-> TRUE, text |-> text]

\* field(default_factory=list): the list object made for the history of a
\* new ConversationState, `made` lists having been made before
NewListObject_ReusesLast(made) == IF made = 0 THEN made + 1 ELSE made

NewListObject(made) == made + 1

\* the caller holds on to the result of its first run, a single-pass one
\* (max_iterations = 1), while it makes the next run
CallerMayKeep(res, n) == res # <<>> /\ n = 1 /\ run_no = 1

\* one requests.post per generate(), whatever the reply
MAX_RETRIES == 3

RequestsSent_Retrying(reply) ==
    IF reply.kind = "exception" \/ reply.status # 200 THEN MAX_RETRIES ELSE 1

RequestsSent(reply) == 1

\* number of log entries of a role
CountCalls(log, role) == Cardinality({i \in 1..Len(log) : log[i].role = role})

\* ConversationState(user_query=..., max_iterations=...) with its defaults
NewConversationState_Reused(q, n) ==
    [state EXCEPT !.user_query = q, !.max_iterations = n]

NewConversationState(q, n) ==
    [user_query |-> q, generator_output |-> <<>>, critic_feedback |-> <<>>,
     iteration |-> 0, max_iterations |-> n, history |-> <<>>,
     converged |-> FALSE]

\* context the generator gets in loop pass `it` (0-based)
GeneratorContext_FirstAnswer(it, q, st) ==
    IF it = 0 THEN NoContext
    ELSE [query |-> q,
          previous_response |-> IF st.history = <<>> THEN st.generator_output
                                ELSE st.history[1].generator_output,
          feedback |-> st.critic_feedback]

GeneratorContext(it, q, st) ==
    IF it = 0 THEN NoContext
    ELSE [query |-> q, previous_response |-> st.generator_output,
          feedback |-> st.critic_feedback]

\* context the critic gets
CriticContext_WithFeedback(q) ==
    [query |-> q, feedback |-> state.critic_feedback]

CriticContext(q) == [query |-> q]

\* `for iteration in range(max_iterations)`: the iterator yields a value
RangeHasNext_OneMore(pos, n) == pos <= n

RangeHasNext(pos, n) == pos < n

\* "Critic phase (skip on last iteration)"
CriticPhaseRuns_EveryIteration(it, n) == it < n

CriticPhaseRuns_SkipsLastTwo(it, n) == it < n - 2

CriticPhaseRuns(it, n) == it < n - 1

\* the convergence check on the critic's feedback
IsConverged_AnyKeyword(feedback) ==
    \E k \in 1..Len(CONVERGENCE_KEYWORDS) :
        Contains(CONVERGENCE_KEYWORDS[k], lower(feedback))

IsConverged_CaseSensitive(feedback) == Contains(ConvergenceMarker, feedback)

IsConverged(feedback) == Contains(ConvergenceMarker, lower(feedback))

\* the dict appended to state.history
HistoryEntry_ZeroBased(st, it, n) ==
    [iteration |-> it,
     generator_output |-> st.generator_output,
     critic_feedback |-> IF it < n - 1 THEN Some(st.critic_feedback) ELSE None]

HistoryEntry_AlwaysFeedback(st, it, n) ==
    [iteration |-> st.iteration,
     generator_output |-> st.generator_output,
     critic_feedback |-> Some(st.critic_feedback)]

HistoryEntry(st, it, n) ==
    [iteration |-> st.iteration,
     generator_output |-> st.generator_output,
     critic_feedback |-> IF it < n - 1 THEN Some(st.critic_feedback) ELSE None]

\* the dict run() returns
RunResult_PerRunCounts(st, gcount, ccount) ==
    [final_response |-> st.generator_output,
     iterations |-> st.iteration,
     converged |-> st.converged,
     history |-> st.history,
     generator_calls |-> CountCalls(calls, "generator"),
     critic_calls |-> CountCalls(calls, "critic")]

RunResult_FromHistory(st, gcount, ccount) ==
    [final_response |-> IF st.history = <<>> THEN <<>>
                        ELSE st.history[Len(st.history)].generator_output,
     iterations |-> st.iteration,
     converged |-> st.converged,
     history |-> st.history,
     generator_calls |-> gcount,
     critic_calls |-> ccount]

RunResult(st, gcount, ccount) ==
    [final_response |-> st.generator_output,
     iterations |-> st.iteration,
     converged |-> st.converged,
     history |-> st.history,
     generator_calls |-> gcount,
     critic_calls |-> ccount]

\* entry of the call log: a process call, with what requests.post did on
\* its request and the text generate() returned
CallEntry(role, st, input_text, context, reply, response) ==
    [role |-> role, iteration |-> st.iteration, input_text |-> input_text,
     context |-> context, prompt |-> BuildPrompt(role, input_text, context),
     reply |-> reply, response |-> response]

\* the request a process call hands to requests.post
Request(role, st, input_text, context) ==
    [role |-> role, iteration |-> st.iteration,
     prompt |-> BuildPrompt(role, input_text, context)]

\* requests.post has returned or raised: its request is no longer outstanding
Answered_StillOutstanding(requests) == requests

Answered(requests) == Tail(requests)

\* before the first run() there is no ConversationState: a blank placeholder
NoConversation ==
    [user_query |-> <<>>, generator_output |-> <<>>, critic_feedback |-> <<>>,
     iteration |-> 0, max_iterations |-> 0, history |-> <<>>,
     converged |-> FALSE]

Init ==
    /\ generator_call_count = 0
    /\ critic_call_count = 0
    /\ pc = "idle"
    /\ user_query = <<>>
    /\ max_iterations = 0
    /\ state = NoConversation
    /\ range_next = 0
    /\ iteration = 0
    /\ result = <<>>
    /\ run_no = 0
    /\ calls = <<>>
    /\ history_obj = 0
    /\ kept = <<>>
    /\ backend_requests = 0
    /\ earlier_calls = [generator |-> 0, critic |-> 0]
    /\ in_flight = <<>>

\* a caller invokes coordinator.run(q, n), keeping or dropping the result
\* of the previous run: the ConversationState is built
RunCall(q, n, keep) ==
    /\ pc = "idle"
    /\ run_no < MaxRuns
    /\ q = QueryOfRun(run_no + 1)
    /\ keep => CallerMayKeep(result, max_iterations)
    /\ kept' = IF keep
               THEN <<[obj |-> history_obj, history |-> result[1].history]>>
               ELSE <<>>
    /\ history_obj' = NewListObject(run_no)
    /\ backend_requests' = 0
    /\ earlier_calls' =
           [generator |-> earlier_calls.generator + CountCalls(calls, "generator"),
            critic |-> earlier_calls.critic + CountCalls(calls, "critic")]
    /\ run_no' = run_no + 1
    /\ user_query' = q
    /\ max_iterations' = n
    /\ state' = NewConversationState(q, n)
    /\ range_next' = 0
    /\ result' = <<>>
    /\ iteration' = 0
    /\ calls' = <<>>
    /\ pc' = "for"
    /\ UNCHANGED <<generator_call_count, critic_call_count, in_flight>>

\* head of `for iteration in range(max_iterations)` and state.iteration
ForLoop ==
    /\ pc = "for"
    /\ IF RangeHasNext(range_next, max_iterations)
       THEN /\ iteration' = range_next
            /\ range_next' = range_next + 1
            /\ state' = [state EXCEPT !.iteration = range_next + 1]
            /\ pc' = "generator"
       ELSE /\ pc' = "return"
            /\ UNCHANGED <<iteration, range_next, state>>
    /\ UNCHANGED <<generator_call_count, critic_call_count, user_query,
                   max_iterations, result, run_no, calls, history_obj, kept,
                   backend_requests, earlier_calls, in_flight>>

\* generator phase: self.generator.process(...) counts the call, builds the
\* prompt and posts the request, which blocks until the backend answers
GeneratorRequest ==
    /\ pc = "generator"
    /\ generator_call_count' = generator_call_count + 1
    /\ in_flight' = Append(in_flight,
           Request("generator", state, user_query,
                   GeneratorContext(iteration, user_query, state)))
    /\ pc' = "generator_reply"
    /\ UNCHANGED <<critic_call_count, user_query, max_iterations, state,
                   range_next, iteration, result, run_no, calls, history_obj,
                   kept, backend_requests, earlier_calls>>

\* the generator's request is answered: process returns, then the test that
\* decides whether the critic phase runs
GeneratorPhase(reply) ==
    /\ pc = "generator_reply"
    /\ LET context == GeneratorContext(iteration, user_query, state)
           response == generate(reply)
       IN  /\ state' = [state EXCEPT !.generator_output = response]
           /\ calls' = Append(calls,
                  CallEntry("generator", state, user_query, context, reply,
                            response))
    /\ in_flight' = Answered(in_flight)
    /\ pc' = IF CriticPhaseRuns(iteration, max_iterations)
             THEN "critic" ELSE "store"
    /\ backend_requests' = backend_requests + RequestsSent(reply)
    /\ UNCHANGED <<generator_call_count, critic_call_count, user_query,
                   max_iterations, range_next, iteration, result, run_no,
                   history_obj, kept, earlier_calls>>

\* critic phase: self.critic.process(...) counts the call, builds the prompt
\* and posts the request, which blocks until the backend answers
CriticRequest ==
    /\ pc = "critic"
    /\ critic_call_count' = critic_call_count + 1
    /\ in_flight' = Append(in_flight,
           Request("critic", state, state.generator_output,
                   CriticContext(user_query)))
    /\ pc' = "critic_reply"
    /\ UNCHANGED <<generator_call_count, user_query, max_iterations, state,
                   range_next, iteration, result, run_no, calls, history_obj,
                   kept, backend_requests, earlier_calls>>

\* the critic's request is answered: process returns, then the convergence
\* check
CriticPhase(reply) ==
    /\ pc = "critic_reply"
    /\ LET context == CriticContext(user_query)
           response == generate(reply)
       IN  /\ calls' = Append(calls,
                  CallEntry("critic", state, state.generator_output, context,
                            reply, response))
           /\ IF IsConverged(response)
              THEN /\ state' = [state EXCEPT !.critic_feedback = response,
                                             !.converged = TRUE]
                   /\ pc' = "return"
              ELSE /\ state' = [state EXCEPT !.critic_feedback = response]
                   /\ pc' = "store"
    /\ in_flight' = Answered(in_flight)
    /\ backend_requests' = backend_requests + RequestsSent(reply)
    /\ UNCHANGED <<generator_call_count, critic_call_count, user_query,
                   max_iterations, range_next, iteration, result, run_no,
                   history_obj, kept, earlier_calls>>

\* "Store history": state.history.append({...})
StoreHistory ==
    /\ pc = "store"
    /\ state' = [state EXCEPT !.history =
                    Append(@, HistoryEntry(state, iteration, max_iterations))]
    /\ kept' = IF kept # <<>> /\ kept[1].obj = history_obj
               THEN <<[kept[1] EXCEPT !.history =
                          Append(@, HistoryEntry(state, iteration,
                                                 max_iterations))]>>
               ELSE kept
    /\ pc' = "for"
    /\ UNCHANGED <<generator_call_count, critic_call_count, user_query,
                   max_iterations, range_next, iteration, result, run_no,
                   calls, history_obj, backend_requests, earlier_calls,
                   in_flight>>

\* the return statement of run()
Return ==
    /\ pc = "return"
    /\ result' = <<RunResult(state, generator_call_count, critic_call_count)>>
    /\ pc' = "idle"
    /\ UNCHANGED <<generator_call_count, critic_call_count, user_query,
                   max_iterations, state, range_next, iteration, run_no,
                   calls, history_obj, kept, backend_requests, earlier_calls,
                   in_flight>>

Next ==
    \/ \E q \in Range(Queries), n \in IterationArgs, keep \in BOOLEAN :
           RunCall(q, n, keep)
    \/ ForLoop
    \/ GeneratorRequest
    \/ \E reply \in GeneratorReplies : GeneratorPhase(reply)
    \/ CriticRequest
    \/ \E reply \in CriticReplies : CriticPhase(reply)
    \/ StoreHistory
    \/ Return

Spec == Init /\ [][Next]_vars

\* run() is sequential code: each of its steps is taken once it is enabled
RunStep ==
    \/ ForLoop
    \/ GeneratorRequest
    \/ \E reply \in GeneratorReplies : GeneratorPhase(reply)
    \/ CriticRequest
    \/ \E reply \in CriticReplies : CriticPhase(reply)
    \/ StoreHistory
    \/ Return

FairSpec == Spec /\ WF_vars(RunStep)

\* ------------------------------------------------- vocabulary of the claims
\* run() has returned and the caller holds its result
Returned == pc = "idle" /\ result # <<>>

\* the first run() on a newly constructed coordinator
NewCoordinator == run_no = 1

\* positions of the log that are calls of one role
CallsOf(role) == {i \in 1..Len(calls) : calls[i].role = role}

\* two characters that are the same letter, whatever their case
SameLetter(a, b) ==
    \/ a = b
    \/ \E i \in 1..Len(UpperLetters) :
           {a, b} = {UpperLetters[i], LowerLetters[i]}

\* the text holds the phrase at some position, in any letter case
HasPhrase(phrase, text) ==
    \E i \in 0..(Len(text) - Len(phrase)) :
        \A j \in 1..Len(phrase) : SameLetter(text[i + j], phrase[j])

HasMarker(text) == HasPhrase(ConvergenceMarker, text)

\* the feedback of the critic call at log position i carries the marker
MarkerAt(i) == calls[i].role = "critic" /\ HasMarker(calls[i].response)

\* C1: on a new coordinator with max_iterations N > 1, the first critic
\* feedback that carries the marker (any letter case), at iteration k < N,
\* ends the run: no further role call is made, and run() returns
\* iterations = k, converged = TRUE, generator_calls = k, critic_calls = k.
C1_MarkerEndsRun ==
    (NewCoordinator /\ max_iterations > 1) =>
        \A i \in 1..Len(calls) :
            MarkerAt(i) =>
                /\ calls[i].iteration < max_iterations
                /\ i = Len(calls)
                /\ pc \in {"return", "idle"}
                /\ state.converged
                /\ Returned =>
                       /\ result[1].iterations = calls[i].iteration
                       /\ result[1].converged = TRUE
                       /\ result[1].generator_calls = calls[i].iteration
                       /\ result[1].critic_calls = calls[i].iteration

\* a first run with max_iterations 3 that converged at iteration 2 on a
\* feedback spelling the marker with capital letters
C1_Witness ==
    /\ Returned /\ NewCoordinator /\ max_iterations = 3
    /\ result[1].converged /\ result[1].iterations = 2
    /\ ~ MarkerAt(2)
    /\ MarkerAt(4) /\ calls[4].response # lower(calls[4].response)

\* C2: a run that converged at iteration k < max_iterations returns a
\* history of exactly k records numbered 1..k, all with critic_feedback
\* present, the k-th holding the final answer and the marker feedback.
C2_ConvergedHistoryHasKRecords ==
    (Returned /\ result[1].converged) =>
        LET k == result[1].iterations
            h == result[1].history
        IN  /\ k < max_iterations
            /\ Len(h) = k
            /\ \A j \in 1..Len(h) :
                   h[j].iteration = j /\ h[j].critic_feedback.present
            /\ Len(h) = k =>
                   /\ h[k].generator_output = result[1].final_response
                   /\ HasMarker(h[k].critic_feedback.text)

\* C3: on a new coordinator with max_iterations N > 1 and a critic that
\* never emits the marker, run() makes N generator and N-1 critic calls and
\* returns iterations = N, converged = FALSE and N history records, the
\* first N-1 with feedback present, the last with feedback absent.
C3_ExhaustedRun ==
    ( /\ Returned /\ NewCoordinator /\ max_iterations > 1
      /\ \A i \in 1..Len(calls) : ~ MarkerAt(i) ) =>
        LET n == max_iterations
            h == result[1].history
        IN  /\ Cardinality(CallsOf("generator")) = n
            /\ Cardinality(CallsOf("critic")) = n - 1
            /\ result[1].generator_calls = n
            /\ result[1].critic_calls = n - 1
            /\ result[1].iterations = n
            /\ result[1].converged = FALSE
            /\ Len(h) = n
            /\ \A j \in 1..(n - 1) : h[j].critic_feedback.present
            /\ h[n].critic_feedback = None

\* a first run of 3 iterations whose critic answered twice without marker
C3_Witness ==
    /\ Returned /\ NewCoordinator /\ max_iterations = 3
    /\ ~ result[1].converged
    /\ Cardinality(CallsOf("critic")) = 2
    /\ Len(result[1].history) = 3

\* C4: with max_iterations = 1 on a new coordinator run() makes one
\* generator call and no critic call and returns iterations = 1,
\* converged = FALSE, one history record without feedback, critic_calls = 0.
C4_SingleIteration ==
    (Returned /\ NewCoordinator /\ max_iterations = 1) =>
        /\ Cardinality(CallsOf("generator")) = 1
        /\ CallsOf("critic") = {}
        /\ result[1].generator_calls = 1
        /\ result[1].critic_calls = 0
        /\ result[1].iterations = 1
        /\ result[1].converged = FALSE
        /\ Len(result[1].history) = 1
        /\ result[1].history[1].critic_feedback = None
        /\ result[1].history[1].generator_output = calls[1].response

\* a single-iteration first run whose generator answer quotes the marker
C4_Witness ==
    /\ Returned /\ NewCoordinator /\ max_iterations = 1
    /\ HasMarker(result[1].final_response)
    /\ result[1].critic_calls = 0

\* the log position of the call of `role` made in iteration k
CallIn(role, k) ==
    CHOOSE i \in CallsOf(role) : calls[i].iteration = k

\* the last position of the log that is a generator call
LastGeneratorCall ==
    CHOOSE g \in CallsOf("generator") : \A i \in CallsOf("generator") : i <= g

\* the text is one of the error strings of OllamaClient.generate
IsErrorString(text) ==
    /\ Len(text) >= Len(ErrorPrefix)
    /\ SubSeq(text, 1, Len(ErrorPrefix)) = ErrorPrefix

\* C5: in every iteration i > 1 the generator's context is the query of
\* this run with exactly the generator output and the critic feedback of
\* iteration i-1 of this run, nothing older.
C5_ContextIsPreviousPair ==
    \A i \in CallsOf("generator") :
        calls[i].iteration > 1 =>
            LET k == calls[i].iteration - 1
            IN  /\ \E g \in CallsOf("generator") : calls[g].iteration = k
                /\ \E c \in CallsOf("critic") : calls[c].iteration = k
                /\ calls[i].context =
                       [query |-> user_query,
                        previous_response |->
                            calls[CallIn("generator", k)].response,
                        feedback |-> calls[CallIn("critic", k)].response]

\* in a second run, the generator call of iteration 3 got the answer and the
\* feedback of iteration 2, which differ from those of iteration 1
C5_Witness ==
    /\ run_no = 2
    /\ \E i \in CallsOf("generator") :
           /\ calls[i].iteration = 3
           /\ calls[i].context.previous_response
                  # calls[CallIn("generator", 1)].response
           /\ calls[i].context.feedback
                  # calls[CallIn("critic", 1)].response

\* C6: an error string returned by a generator or critic call does not
\* abort run(): it is the text handed to the next role call, it is recorded
\* in the returned history, it is final_response when it is the last
\* generator output, and the run ends only by convergence or exhaustion.
C6_ErrorStringsFlowOn ==
    \A i \in 1..Len(calls) :
        IsErrorString(calls[i].response) =>
            LET text == calls[i].response
                k == calls[i].iteration
            IN  /\ (calls[i].role = "generator" /\ i < Len(calls)) =>
                       /\ calls[i + 1].role = "critic"
                       /\ calls[i + 1].prompt.response = text
                /\ (calls[i].role = "critic" /\ i < Len(calls)) =>
                       /\ calls[i + 1].role = "generator"
                       /\ calls[i + 1].prompt.kind = "revision"
                       /\ calls[i + 1].prompt.feedback = text
                /\ (i = Len(calls) /\ pc \in {"return", "idle"}) =>
                       \/ calls[i].role = "generator" /\ k = max_iterations
                       \/ calls[i].role = "critic" /\ HasMarker(text)
                /\ Returned =>
                       /\ \E j \in 1..Len(result[1].history) :
                              LET rec == result[1].history[j]
                              IN  /\ rec.iteration = k
                                  /\ calls[i].role = "generator" =>
                                         rec.generator_output = text
                                  /\ calls[i].role = "critic" =>
                                         rec.critic_feedback = Some(text)
                       /\ i = LastGeneratorCall =>
                              result[1].final_response = text

\* the bounds of C7 on the role calls of the run in progress
C7_CallBounds ==
    LET n == IF max_iterations > 0 THEN max_iterations ELSE 0
    IN  /\ Cardinality(CallsOf("generator")) <= n
        /\ Cardinality(CallsOf("critic")) <= (IF n > 0 THEN n - 1 ELSE 0)
        /\ Returned =>
               \/ result[1].converged
               \/ result[1].iterations = n /\ Len(result[1].history) = n

C8_FinalResponseIsLastGeneratorOutput ==
    (Returned /\ CallsOf("generator") # {}) =>
        LET g == LastGeneratorCall
        IN  /\ result[1].final_response = calls[g].response
            /\ result[1].iterations = calls[g].iteration
            /\ result[1].converged =>
                   /\ Len(calls) = g + 1
                   /\ calls[g + 1].role = "critic"
                   /\ calls[g + 1].iteration = calls[g].iteration
                   /\ calls[g + 1].input_text = result[1].final_response
                   /\ HasMarker(calls[g + 1].response)
            /\ ~ result[1].converged =>
                   /\ Len(calls) = g
                   /\ calls[g].iteration = max_iterations

\* a run that converged at iteration 2 on an answer other than the first
C8_Witness ==
    /\ Returned /\ result[1].converged /\ result[1].iterations = 2
    /\ result[1].final_response # calls[1].response
    /\ result[1].final_response = calls[3].response

\* C9: in a returned history critic_feedback is absent exactly for the
\* record of the run's final iteration, after exhaustion and after
\* convergence alike, and the history has as many records as iterations.
C9_FeedbackAbsentExactlyOnFinalRecord ==
    Returned =>
        LET h == result[1].history
        IN  /\ Len(h) = result[1].iterations
            /\ \A j \in 1..Len(h) :
                   h[j].critic_feedback.present
                       <=> (h[j].iteration # result[1].iterations)

\* C10: a critic feedback of a non-final iteration that contains any of
\* the configured CONVERGENCE_KEYWORDS ends the run with converged = TRUE.
C10_AnyKeywordConverges ==
    \A i \in CallsOf("critic") :
        ( /\ calls[i].iteration < max_iterations
          /\ \E k \in 1..Len(CONVERGENCE_KEYWORDS) :
                 Contains(CONVERGENCE_KEYWORDS[k], calls[i].response) ) =>
            /\ i = Len(calls)
            /\ state.converged
            /\ Returned => result[1].converged

\* C11: every generator call of an iteration i > 1 builds the revision
\* prompt with the query, the previous answer and the previous feedback,
\* whatever text the critic returned (also an empty one); the first-call
\* prompt is built at iteration 1 only.
C11_RevisionPromptAfterFirst ==
    \A i \in CallsOf("generator") :
        IF calls[i].iteration = 1
        THEN calls[i].prompt = [kind |-> "first", query |-> user_query]
        ELSE calls[i].prompt =
                 [kind |-> "revision", query |-> user_query,
                  previous_response |->
                      calls[CallIn("generator", calls[i].iteration - 1)].response,
                  feedback |->
                      calls[CallIn("critic", calls[i].iteration - 1)].response]

\* the history a run returns, as its own role calls determine it: one record
\* per generator call, the converging iteration excepted
HistoryFromCalls ==
    LET last == Len(calls)
        conv == last > 0 /\ MarkerAt(last)
        n == Cardinality(CallsOf("generator")) - (IF conv THEN 1 ELSE 0)
    IN  [j \in 1..n |->
            [iteration |-> j,
             generator_output |-> calls[CallIn("generator", j)].response,
             critic_feedback |->
                 IF \E c \in CallsOf("critic") : calls[c].iteration = j
                 THEN Some(calls[CallIn("critic", j)].response)
                 ELSE None]]

\* the conversation state a run starts from
C12_StartsFresh ==
    (pc = "for" /\ range_next = 0) =>
        /\ state.iteration = 0
        /\ state.converged = FALSE
        /\ state.history = <<>>
        /\ state.generator_output = <<>>
        /\ state.critic_feedback = <<>>
        /\ state.user_query = QueryOfRun(run_no)

\* what a run returns follows from its own query, max_iterations and calls
C12_ResultFromThisRun ==
    Returned =>
        /\ result[1].history = HistoryFromCalls
        /\ result[1].converged = (calls # <<>> /\ MarkerAt(Len(calls)))
        /\ result[1].iterations = Cardinality(CallsOf("generator"))
        /\ result[1].final_response =
               (IF CallsOf("generator") = {} THEN <<>>
                ELSE calls[LastGeneratorCall].response)

\* C12: every run() starts from a fresh conversation state; the history,
\* converged, iterations and final_response a later run returns follow from
\* that run's query, max_iterations and role outputs alone; and the history
\* an earlier run returned is not changed by a later run.
C12_FreshStatePerRun ==
    /\ [] (C12_StartsFresh /\ C12_ResultFromThisRun)
    /\ [][pc # "idle" => kept' = kept]_vars

\* a second run returned a history of its own while the caller still holds
\* the non-empty history of the first run
C12_Witness ==
    /\ Returned /\ run_no = 2
    /\ kept # <<>> /\ kept[1].history # <<>>
    /\ Len(result[1].history) = 2
    /\ result[1].history[1] # kept[1].history[1]

\* process calls of a role begun in the run in progress: those that have
\* returned and the one waiting for the backend
ProcessCalls(role) == CountCalls(calls, role) + CountCalls(in_flight, role)

Outcome_CONVERGED ==
    /\ result[1].converged = TRUE
    /\ result[1].iterations < max_iterations
    /\ calls # <<>> /\ calls[Len(calls)].role = "critic"

Outcome_EXHAUSTED ==
    /\ result[1].converged = FALSE
    /\ result[1].iterations = max_iterations
    /\ calls # <<>> /\ calls[Len(calls)].role = "generator"

\* C14: for max_iterations >= 1 a run ends either CONVERGED (converged,
\* iterations < max_iterations, last role call a critic call) or EXHAUSTED
\* (not converged, iterations = max_iterations, last role call a generator
\* call), never both; converged becomes true only in a step that is a critic
\* call of the current iteration, and is not reset within the run.
C14_TerminalOutcomes ==
    /\ [] ((Returned /\ max_iterations >= 1) =>
               /\ Outcome_CONVERGED \/ Outcome_EXHAUSTED
               /\ ~ (Outcome_CONVERGED /\ Outcome_EXHAUSTED))
    /\ [][(~ state.converged /\ state'.converged) =>
              /\ Len(calls') = Len(calls) + 1
              /\ calls'[Len(calls')].role = "critic"
              /\ calls'[Len(calls')].iteration = state'.iteration]_vars
    /\ [][(pc # "idle" /\ state.converged) => state'.converged]_vars

\* a second run that ended CONVERGED at iteration 2 of 3
C14_Witness ==
    /\ Returned /\ run_no = 2 /\ max_iterations = 3
    /\ Outcome_CONVERGED /\ result[1].iterations = 2

C16_NoCriticInLastIteration ==
    /\ \A i \in CallsOf("critic") : calls[i].iteration < max_iterations
    /\ state.iteration = max_iterations => ~ state.converged
    /\ (Returned /\ result[1].iterations = max_iterations) =>
           ~ result[1].converged

\* a run of 3 iterations returned unconverged although its last answer
\* quotes the marker phrase, the critic having run twice
C16_Witness ==
    /\ Returned /\ max_iterations = 3 /\ result[1].iterations = 3
    /\ HasMarker(result[1].final_response)
    /\ Cardinality(CallsOf("critic")) = 2
    /\ ~ result[1].converged

\* C17: within a run the role calls alternate, starting with the
\* generator: the first call is a generator call, every critic call comes
\* right after the generator call of its iteration, and no two calls of the
\* same role are consecutive.
C17_RolesAlternate ==
    /\ calls # <<>> => calls[1].role = "generator"
    /\ \A i \in 1..Len(calls) :
           /\ calls[i].role = "critic" =>
                  /\ i > 1
                  /\ calls[i - 1].role = "generator"
                  /\ calls[i - 1].iteration = calls[i].iteration
           /\ i < Len(calls) => calls[i + 1].role # calls[i].role

\* a run in which generator, critic, generator, critic, generator ran
C17_Witness ==
    /\ Len(calls) = 5
    /\ calls[1].role = "generator" /\ calls[2].role = "critic"
    /\ calls[3].role = "generator" /\ calls[4].role = "critic"
    /\ calls[5].role = "generator"

\* C18: the critic call of iteration i reviews exactly the generator output
\* of iteration i, with a context that holds the query only: no earlier
\* answer, no earlier feedback.
C18_CriticReviewsCurrentAnswer ==
    \A i \in CallsOf("critic") :
        /\ \E g \in CallsOf("generator") :
               calls[g].iteration = calls[i].iteration
        /\ calls[i].input_text =
               calls[CallIn("generator", calls[i].iteration)].response
        /\ calls[i].context = [query |-> user_query]
        /\ calls[i].prompt =
               [kind |-> "evaluate", query |-> user_query,
                response |->
                    calls[CallIn("generator", calls[i].iteration)].response]

\* the critic call of iteration 2 reviewed an answer other than that of
\* iteration 1, after a feedback had been given in iteration 1
C18_Witness ==
    /\ Len(calls) >= 4 /\ calls[4].role = "critic" /\ calls[4].iteration = 2
    /\ calls[4].input_text # calls[1].response
    /\ calls[2].response # <<>>

\* the records of the history in progress are numbered 1, 2, ... and hold
\* the generator outputs of their iterations, at most one per iteration
C19_RecordsInOrder ==
    /\ Len(state.history) <= state.iteration
    /\ \A j \in 1..Len(state.history) :
           /\ state.history[j].iteration = j
           /\ \E g \in CallsOf("generator") : calls[g].iteration = j
           /\ state.history[j].generator_output =
                  calls[CallIn("generator", j)].response

\* C19: during a run the history only grows by appending one record at a
\* time, a record once appended is neither changed nor removed, the j-th
\* record carries iteration number j and the generator output of iteration
\* j, and state.iteration goes 1, 2, 3, ... in steps of one.
C19_HistoryAppendOnly ==
    /\ [] C19_RecordsInOrder
    /\ [][pc # "idle" =>
              /\ \/ state'.history = state.history
                 \/ /\ Len(state'.history) = Len(state.history) + 1
                    /\ SubSeq(state'.history, 1, Len(state.history))
                           = state.history
              /\ \/ state'.iteration = state.iteration
                 \/ state'.iteration = state.iteration + 1]_vars

\* a history of three records, the third with another answer than the second
C19_Witness ==
    /\ Len(state.history) = 3 /\ state.iteration = 3
    /\ state.history[3].generator_output # state.history[2].generator_output

\* C20: the call counters are never reset: at any time they are the number
\* of process calls of that role since the coordinator was built, and the
\* generator_calls and critic_calls a run returns are these totals, the sums
\* over all runs so far.
C20_CountersAccumulate ==
    /\ generator_call_count =
           earlier_calls.generator + ProcessCalls("generator")
    /\ critic_call_count =
           earlier_calls.critic + ProcessCalls("critic")
    /\ Returned =>
           /\ result[1].generator_calls =
                  earlier_calls.generator + CountCalls(calls, "generator")
           /\ result[1].critic_calls =
                  earlier_calls.critic + CountCalls(calls, "critic")

\* a second run of two generator calls and one critic call returned the
\* totals 5 and 3, the first run having made three and two calls
C20_Witness ==
    /\ Returned /\ run_no = 2
    /\ CountCalls(calls, "generator") = 2 /\ CountCalls(calls, "critic") = 1
    /\ result[1].generator_calls = 5 /\ result[1].critic_calls = 3

\* generator calls minus critic calls made so far in the run in progress,
\* by the calls themselves and by the counters of the two agents
CallDifference == ProcessCalls("generator") - ProcessCalls("critic")

CounterDifference ==
    (generator_call_count - earlier_calls.generator)
  - (critic_call_count - earlier_calls.critic)

\* C21: at every point of a run the generator calls made so far in that run
\* minus its critic calls is 0 or 1; at the return of a run with
\* max_iterations >= 1 the difference is 0 exactly if converged is true and
\* 1 exactly if the run exhausted max_iterations.
C21_CallDifference ==
    /\ CallDifference \in {0, 1}
    /\ CounterDifference = CallDifference
    /\ (Returned /\ max_iterations >= 1) =>
           /\ (CallDifference = 0) <=> (result[1].converged = TRUE)
           /\ (CallDifference = 1) <=>
                  (~ result[1].converged
                   /\ result[1].iterations = max_iterations)

\* a second run returned exhausted with difference 1 after a first run that
\* was exhausted too, the counters of the coordinator being two apart
C21_Witness ==
    /\ Returned /\ run_no = 2 /\ max_iterations = 3
    /\ ~ result[1].converged /\ CallDifference = 1
    /\ result[1].generator_calls - result[1].critic_calls = 2

\* what holds of a run called with max_iterations <= 0, at every point of it
C22_NoCallsNoRecords ==
    max_iterations <= 0 =>
        /\ calls = <<>>
        /\ backend_requests = 0
        /\ pc \in {"idle", "for", "return"}
        /\ Returned =>
               /\ result[1].iterations = 0
               /\ result[1].converged = FALSE
               /\ result[1].history = <<>>
               /\ result[1].final_response = <<>>
               /\ result[1].generator_calls = generator_call_count
               /\ result[1].critic_calls = critic_call_count

\* C22: with max_iterations <= 0, run() makes no generator and no critic
\* call and goes from the loop head straight to its return statement,
\* returning iterations = 0, converged = FALSE, an empty history and an
\* empty final_response; both call counters stay as they were.
C22_NonPositiveMaxIterations ==
    /\ [] C22_NoCallsNoRecords
    /\ [][max_iterations' <= 0 =>
              /\ generator_call_count' = generator_call_count
              /\ critic_call_count' = critic_call_count
              /\ pc = "for" => pc' = "return"
              /\ pc = "return" => Returned']_vars

\* a second run with max_iterations = -1 returned the empty result, the
\* counters still holding the three and two calls of the first run
C22_Witness ==
    /\ Returned /\ run_no = 2 /\ max_iterations = -1
    /\ result[1].history = <<>> /\ result[1].iterations = 0
    /\ result[1].generator_calls = 3 /\ result[1].critic_calls = 2

\* the characters texts are made of
Characters ==
    Range(UpperLetters) \cup Range(LowerLetters) \cup Range(Digits)
        \cup Whitespace \cup {":", ".", "?"}

\* `text` is `body` without its leading and trailing whitespace
IsTrimmed(text, body) ==
    /\ text # <<>> => (text[1] \notin Whitespace
                       /\ text[Len(text)] \notin Whitespace)
    /\ \E a \in 0..Len(body) :
           /\ SubSeq(body, a + 1, a + Len(text)) = text
           /\ a + Len(text) <= Len(body)
           /\ \A j \in 1..Len(body) :
                  (j <= a \/ j > a + Len(text)) => body[j] \in Whitespace

\* the number a sequence of decimal digits denotes
RECURSIVE DecimalValue(_)
DecimalValue(ds) ==
    IF ds = <<>> THEN 0
    ELSE DecimalValue(SubSeq(ds, 1, Len(ds) - 1)) * 10
             + (CHOOSE d \in 0..9 : Digits[d + 1] = ds[Len(ds)])

\* `text` is "Error: HTTP " followed by the status in decimal digits
IsHttpError(text, status) ==
    /\ Len(text) > Len(ErrorHttpPrefix)
    /\ SubSeq(text, 1, Len(ErrorHttpPrefix)) = ErrorHttpPrefix
    /\ \A j \in (Len(ErrorHttpPrefix) + 1)..Len(text) : text[j] \in Range(Digits)
    /\ DecimalValue(SubSeq(text, Len(ErrorHttpPrefix) + 1, Len(text))) = status

\* what generate() returned for each request of the run, by what
\* requests.post did
C23_OutcomeByReply ==
    \A i \in 1..Len(calls) :
        LET reply == calls[i].reply
            text == calls[i].response
        IN  /\ text \in Seq(Characters)
            /\ (reply.kind = "response" /\ reply.status = 200) =>
                   IF reply.has_response
                   THEN IsTrimmed(text, reply.body)
                   ELSE text = <<>>
            /\ (reply.kind = "response" /\ reply.status # 200) =>
                   IsHttpError(text, reply.status)
            /\ reply.kind = "exception" =>
                   text = <<"E", "r", "r", "o", "r", ":", " ">> \o reply.detail

C24_AtMostOneOutstanding ==
    /\ Len(in_flight) <= 1
    /\ ~ \E i, j \in 1..Len(in_flight) :
             in_flight[i].role = "generator" /\ in_flight[j].role = "critic"
    /\ (in_flight # <<>>) <=> (pc \in {"generator_reply", "critic_reply"})
    /\ pc = "generator_reply" => in_flight[1].role = "generator"
    /\ pc = "critic_reply" => in_flight[1].role = "critic"

\* C24: at any moment of a run at most one backend request is outstanding:
\* a role call is issued only when no request is outstanding and every role
\* call begun before it has returned, so a generator call and a critic call
\* are never in flight at the same time.
C24_RoleCallsNeverOverlap ==
    /\ [] C24_AtMostOneOutstanding
    /\ [][Len(in_flight') > Len(in_flight) =>
              /\ in_flight = <<>>
              /\ Len(in_flight') = 1
              /\ Len(calls) = ProcessCalls("generator") + ProcessCalls("critic")
              /\ calls' = calls]_vars

\* in a second run the critic's request of iteration 2 is outstanding, the
\* three role calls begun before it having returned
C24_Witness ==
    /\ run_no = 2 /\ pc = "critic_reply"
    /\ in_flight = <<[role |-> "critic", iteration |-> 2,
                      prompt |-> [kind |-> "evaluate", query |-> user_query,
                                  response |-> state.generator_output]]>>
    /\ Len(calls) = 3 /\ calls[3].role = "generator"

====
